---------------------------- MODULE Spec2Model ----------------------------
(***************************************************************************)
(* HashCache<K, T> (src/src/lib.rs): a HashMap<K, (T, Instant)> behind a   *)
(* std::sync::RwLock, with one Duration applied to every entry at read     *)
(* time.  The model has a fixed set of threads that call the public        *)
(* methods; each call is split at the points where another thread can      *)
(* interleave: the call, the acquisition of the guard, the steps made      *)
(* while the guard is held, and the release at the end of the closure.     *)
(*                                                                         *)
(* Time is a monotonic clock counted in ticks; a second has SubsecRes       *)
(* ticks, and a Duration is the pair (secs, nanos) std keeps, nanos being   *)
(* the sub-second part in ticks.                                            *)
(***************************************************************************)
EXTENDS Integers, FiniteSets, TLC

\* ------------------------------------------------------------------ bounds
\* The clock runs from 0 to MaxTime, the threads make MaxCalls calls in all
MaxTime == 2
MaxCalls == 3
MaxSecs == 1
SubsecRes == 2

\* The threads sharing the cache, the keys (K) and the values (T)
Threads == {"t1", "t2"}
Keys == {"k1", "k2"}
Vals == {"v1", "v2"}

NoThread == "none"

\* The whole Duration in ticks (used to state the claims)
Ticks(d) == d.secs * SubsecRes + d.nanos

\* Duration: (secs, nanos) with nanos below one second; the model takes
\* those an entry can reach the end of before the clock stops
Durations ==
    {d \in [secs : 0..MaxSecs, nanos : 0..(SubsecRes - 1)] : Ticks(d) <= MaxTime}

\* ------------------------------------------------------------ std helpers

\* `x as f64` of an unsigned integer: exact below 2^53, which covers every
\* integer this model can hold
as_f64(n) == n

\* Instant::elapsed at clock reading t: the Duration since `created`
\* (saturating at zero)
\* elapsed time that keeps only the sub-second part
elapsed_subsec_only(created, t) ==
    LET e == IF t >= created THEN t - created ELSE 0
    IN  [secs |-> 0, nanos |-> e % SubsecRes]


elapsed(created, t) ==
    LET e == IF t >= created THEN t - created ELSE 0
    IN  [secs |-> e \div SubsecRes, nanos |-> e % SubsecRes]

\* duration_le with the boundary taken as expired
duration_lt(a, b) ==
    \/ a.secs < b.secs
    \/ a.secs = b.secs /\ a.nanos < b.nanos

\* Duration's derived PartialOrd: lexicographic on (secs, nanos)
duration_le(a, b) ==
    \/ a.secs < b.secs
    \/ a.secs = b.secs /\ a.nanos <= b.nanos

\* ------------------------------------------------------------------ state
VARIABLES
    cache,      \* HashMap<K, (T, Instant)>: partial function Keys -> [val, created]
    duration,   \* the Duration given to new()
    now,        \* the monotonic clock
    readers,    \* threads holding an RwLockReadGuard
    wholder,    \* the thread holding the RwLockWriteGuard, or NoThread
    poisoned,   \* the RwLock's poison flag
    pc,         \* per thread: "idle", "wait" (blocked in read()/write()), "hold"
    op,         \* per thread: the call in progress, or the last one made
    ret,        \* per thread: the value the last call returned
    iter,       \* per thread: keys an iteration over the map has still to visit
    res,        \* per thread: get_all's local `res`
    calls,      \* the number of calls made so far
    abs         \* the sequential cache: per key the last completed insert
                \* not followed by a completed remove or clear

vars == <<cache, duration, now, readers, wholder, poisoned, pc, op, ret, iter, res, abs, calls>>

EmptyMap == [k \in {} |-> 0]

\* Results: CacheResult<..> values
Pending == [tag |-> "Pending"]
Err == [tag |-> "Err"]
OkNone == [tag |-> "None"]
OkSome(v) == [tag |-> "Some", val |-> v]
OkMap(m) == [tag |-> "Map", map |-> m]
OkUnit == [tag |-> "Unit"]
OkGuard == [tag |-> "Guard"]

NoOp == [name |-> "none"]
ReadOps == {"get", "get_all", "reader"}
WriteOps == {"insert", "remove", "clear", "writer"}
Calls ==
    [name : {"get", "remove"}, key : Keys]
        \cup [name : {"insert"}, key : Keys, val : Vals]
        \cup [name : {"get_all", "clear", "reader", "writer"}]

\* ------------------------------------------------------------- the methods

\* HashCache::ignore_dur
ignore_dur(d) == as_f64(d.secs) + as_f64(d.nanos) = 0

\* is_live without the test of ignore_dur
is_live_no_sentinel(d, entry, t) ==
    duration_le(elapsed(entry.created, t), d)

\* The test of get and get_all on one entry, the clock reading t
is_live(d, entry, t) ==
    ignore_dur(d) \/ duration_le(elapsed(entry.created, t), d)

\* get_result with an absent key reported as an error
get_result_absent_err(map, d, key, t) ==
    IF key \in DOMAIN map
    THEN IF is_live(d, map[key], t) THEN OkSome(map[key].val) ELSE OkNone
    ELSE Err

\* The closure of get
get_result(map, d, key, t) ==
    IF key \in DOMAIN map
    THEN IF is_live(d, map[key], t) THEN OkSome(map[key].val) ELSE OkNone
    ELSE OkNone

\* read_only with a sweep of the expired entries
read_only_sweep(map) ==
    [k \in {j \in DOMAIN map : is_live(duration, map[j], now)} |-> map[k]]

\* The map a closure of get or get_all leaves behind: it has the read
\* guard, a shared borrow, and changes nothing
read_only(map) == map

\* get_all_step without the test
get_all_step_unfiltered(acc, map, d, k, t) ==
    [j \in DOMAIN acc \cup {k} |-> IF j = k THEN map[k].val ELSE acc[j]]

\* One turn of get_all's loop on the entry of key k: res with the entry's
\* value added if the entry passes the test
get_all_step(acc, map, d, k, t) ==
    IF is_live(d, map[k], t)
    THEN [j \in DOMAIN acc \cup {k} |-> IF j = k THEN map[k].val ELSE acc[j]]
    ELSE acc

\* clear_targets that keeps the entries still live
clear_targets_expired(map) ==
    {k \in DOMAIN map : ~is_live(duration, map[k], now)}

\* The entries HashMap::clear drops: all of them
clear_targets(map) == DOMAIN map

\* HashMap::insert of (val.clone(), Instant::now())
\* insert that sweeps the expired entries of the other keys out of the map
insert_map_evicting(map, key, val, t) ==
    [k \in {j \in DOMAIN map : is_live(duration, map[j], t)} \cup {key} |->
        IF k = key THEN [val |-> val, created |-> t] ELSE map[k]]


\* insert that keeps the timestamp of the entry it overwrites
insert_map_keep_timestamp(map, key, val, t) ==
    [k \in DOMAIN map \cup {key} |->
        IF k = key
        THEN [val |-> val, created |-> IF key \in DOMAIN map THEN map[key].created ELSE t]
        ELSE map[k]]


insert_map(map, key, val, t) ==
    [k \in DOMAIN map \cup {key} |->
        IF k = key THEN [val |-> val, created |-> t] ELSE map[k]]

\* remove_map that leaves an expired entry where it is
remove_map_if_live(map, key) ==
    IF key \in DOMAIN map /\ is_live(duration, map[key], now)
    THEN [k \in DOMAIN map \ {key} |-> map[k]]
    ELSE map

\* HashMap::remove
remove_map(map, key) == [k \in DOMAIN map \ {key} |-> map[k]]

\* previous that treats an expired entry as absent
previous_if_live(map, key) ==
    IF key \in DOMAIN map /\ is_live(duration, map[key], now)
    THEN OkSome(map[key].val)
    ELSE OkNone

\* What insert and remove return: the previous value, mapped by |(v, _)| v
previous(map, key) ==
    IF key \in DOMAIN map THEN OkSome(map[key].val) ELSE OkNone

\* ------------------------------------------------------------- the RwLock

\* can_read of a mutual exclusion lock
can_read_exclusive == wholder = NoThread /\ readers = {}

\* can_read that does not wait for the writer
can_read_always == TRUE

\* RwLock::read can return: no write guard is out
can_read == wholder = NoThread

\* can_write that does not wait for the readers
can_write_ignoring_readers == wholder = NoThread

\* RwLock::write can return: no guard is out
can_write == wholder = NoThread /\ readers = {}

\* ------------------------------------------------------------------ actions

\* HashCache::new(duration)
Init ==
    /\ cache = EmptyMap
    /\ duration \in Durations
    /\ now = 0
    /\ readers = {}
    /\ wholder = NoThread
    /\ poisoned = FALSE
    /\ pc = [t \in Threads |-> "idle"]
    /\ op = [t \in Threads |-> NoOp]
    /\ ret = [t \in Threads |-> Pending]
    /\ iter = [t \in Threads |-> {}]
    /\ res = [t \in Threads |-> EmptyMap]
    /\ abs = EmptyMap
    /\ calls = 0

\* from_duration with a ttl of one tick instead of zero
from_duration_one_tick == [secs |-> 0, nanos |-> 1]

\* The duration from(map) sets: Duration::new(0, 0)
from_duration == [secs |-> 0, nanos |-> 0]

\* The maps given to from(map): entries stamped when the clock started
Seeds ==
    UNION {[D -> [val : Vals, created : {0}]] : D \in SUBSET Keys}

\* HashCache::from(map); the sequential cache starts with the entries of
\* the map, marked as seeded
InitFrom ==
    /\ cache \in Seeds
    /\ duration = from_duration
    /\ now = 0
    /\ readers = {}
    /\ wholder = NoThread
    /\ poisoned = FALSE
    /\ pc = [t \in Threads |-> "idle"]
    /\ op = [t \in Threads |-> NoOp]
    /\ ret = [t \in Threads |-> Pending]
    /\ iter = [t \in Threads |-> {}]
    /\ res = [t \in Threads |-> EmptyMap]
    /\ abs = [k \in DOMAIN cache |->
                [val |-> cache[k].val, at |-> cache[k].created, seeded |-> TRUE]]
    /\ calls = 0

\* The clock advances
Tick ==
    /\ now < MaxTime
    /\ now' = now + 1
    /\ UNCHANGED <<cache, duration, readers, wholder, poisoned, pc, op, ret, iter, res, abs, calls>>

\* A thread calls a method and reaches its read() or write()
Call(t, c) ==
    /\ pc[t] = "idle"
    /\ calls < MaxCalls
    /\ calls' = calls + 1
    /\ pc' = [pc EXCEPT ![t] = "wait"]
    /\ op' = [op EXCEPT ![t] = c]
    /\ ret' = [ret EXCEPT ![t] = Pending]
    /\ UNCHANGED <<cache, duration, now, readers, wholder, poisoned, iter, res, abs>>

\* AcquireRead that does not look at the poison flag
AcquireRead_ignoring_poison(t) ==
    /\ pc[t] = "wait"
    /\ op[t].name \in ReadOps
    /\ can_read
    /\ readers' = readers \cup {t}
    /\ pc' = [pc EXCEPT ![t] = "hold"]
    /\ iter' = [iter EXCEPT ![t] = IF op[t].name = "get_all" THEN DOMAIN cache ELSE {}]
    /\ ret' = [ret EXCEPT ![t] = IF op[t].name = "reader" THEN OkGuard ELSE Pending]
    /\ UNCHANGED <<cache, duration, now, wholder, poisoned, op, res, abs, calls>>

\* reader(): read() returns; a poisoned lock gives Err, and the guard inside
\* the PoisonError is dropped by map_err
AcquireRead(t) ==
    /\ pc[t] = "wait"
    /\ op[t].name \in ReadOps
    /\ can_read
    /\ IF poisoned
       THEN /\ ret' = [ret EXCEPT ![t] = Err]
            /\ pc' = [pc EXCEPT ![t] = "idle"]
            /\ UNCHANGED <<readers, iter>>
       ELSE /\ readers' = readers \cup {t}
            /\ pc' = [pc EXCEPT ![t] = "hold"]
            /\ iter' = [iter EXCEPT ![t] = IF op[t].name = "get_all" THEN DOMAIN cache ELSE {}]
            /\ ret' = [ret EXCEPT ![t] = IF op[t].name = "reader" THEN OkGuard ELSE Pending]
    /\ UNCHANGED <<cache, duration, now, wholder, poisoned, op, res, abs, calls>>

\* writer(): write() returns
AcquireWrite(t) ==
    /\ pc[t] = "wait"
    /\ op[t].name \in WriteOps
    /\ can_write
    /\ IF poisoned
       THEN /\ ret' = [ret EXCEPT ![t] = Err]
            /\ pc' = [pc EXCEPT ![t] = "idle"]
            /\ UNCHANGED <<wholder, iter>>
       ELSE /\ wholder' = t
            /\ pc' = [pc EXCEPT ![t] = "hold"]
            /\ iter' = [iter EXCEPT ![t] = IF op[t].name = "clear" THEN clear_targets(cache) ELSE {}]
            /\ ret' = [ret EXCEPT ![t] = IF op[t].name = "writer" THEN OkGuard ELSE Pending]
    /\ UNCHANGED <<cache, duration, now, readers, poisoned, op, res, abs, calls>>

\* Get that returns without dropping the read guard
Get_leak(t) ==
    /\ pc[t] = "hold"
    /\ op[t].name = "get"
    /\ ret' = [ret EXCEPT ![t] = get_result(cache, duration, op[t].key, now)]
    /\ cache' = read_only(cache)
    /\ pc' = [pc EXCEPT ![t] = "idle"]
    /\ UNCHANGED <<duration, now, readers, wholder, poisoned, op, iter, res, abs, calls>>

\* get: the closure runs on the guard, which is dropped as it returns
Get(t) ==
    /\ pc[t] = "hold"
    /\ op[t].name = "get"
    /\ ret' = [ret EXCEPT ![t] = get_result(cache, duration, op[t].key, now)]
    /\ cache' = read_only(cache)
    /\ readers' = readers \ {t}
    /\ pc' = [pc EXCEPT ![t] = "idle"]
    /\ UNCHANGED <<duration, now, wholder, poisoned, op, iter, res, abs, calls>>

\* get_all: one turn of the loop over reader.iter(); the clock is read for
\* each entry, and the order of the entries is the map's
GetAllStep(t, k) ==
    /\ pc[t] = "hold"
    /\ op[t].name = "get_all"
    /\ k \in iter[t]
    /\ iter' = [iter EXCEPT ![t] = @ \ {k}]
    /\ res' = [res EXCEPT ![t] = get_all_step(@, cache, duration, k, now)]
    /\ cache' = read_only(cache)
    /\ UNCHANGED <<duration, now, readers, wholder, poisoned, pc, op, ret, abs, calls>>

\* get_all: the loop is over, the closure returns res and drops the guard
GetAllReturn(t) ==
    /\ pc[t] = "hold"
    /\ op[t].name = "get_all"
    /\ iter[t] = {}
    /\ ret' = [ret EXCEPT ![t] = OkMap(res[t])]
    /\ res' = [res EXCEPT ![t] = EmptyMap]
    /\ readers' = readers \ {t}
    /\ pc' = [pc EXCEPT ![t] = "idle"]
    /\ UNCHANGED <<cache, duration, now, wholder, poisoned, op, iter, abs, calls>>

\* insert: the closure stores (val.clone(), Instant::now()) and returns the
\* previous value
\* insert that returns without giving the write guard back
Insert_keeps_guard(t) ==
    /\ pc[t] = "hold"
    /\ op[t].name = "insert"
    /\ cache' = insert_map(cache, op[t].key, op[t].val, now)
    /\ ret' = [ret EXCEPT ![t] = previous(cache, op[t].key)]
    /\ abs' = [k \in DOMAIN abs \cup {op[t].key} |->
                IF k = op[t].key THEN [val |-> op[t].val, at |-> now] ELSE abs[k]]
    /\ pc' = [pc EXCEPT ![t] = "idle"]
    /\ UNCHANGED <<duration, now, readers, wholder, poisoned, op, iter, res, calls>>


Insert(t) ==
    /\ pc[t] = "hold"
    /\ op[t].name = "insert"
    /\ cache' = insert_map(cache, op[t].key, op[t].val, now)
    /\ ret' = [ret EXCEPT ![t] = previous(cache, op[t].key)]
    /\ abs' = [k \in DOMAIN abs \cup {op[t].key} |->
                IF k = op[t].key THEN [val |-> op[t].val, at |-> now] ELSE abs[k]]
    /\ wholder' = NoThread
    /\ pc' = [pc EXCEPT ![t] = "idle"]
    /\ UNCHANGED <<duration, now, readers, poisoned, op, iter, res, calls>>

\* remove
Remove(t) ==
    /\ pc[t] = "hold"
    /\ op[t].name = "remove"
    /\ cache' = remove_map(cache, op[t].key)
    /\ ret' = [ret EXCEPT ![t] = previous(cache, op[t].key)]
    /\ abs' = [k \in DOMAIN abs \ {op[t].key} |-> abs[k]]
    /\ wholder' = NoThread
    /\ pc' = [pc EXCEPT ![t] = "idle"]
    /\ UNCHANGED <<duration, now, readers, poisoned, op, iter, res, calls>>

\* clear: HashMap::clear drops the entries one after the other
ClearStep(t, k) ==
    /\ pc[t] = "hold"
    /\ op[t].name = "clear"
    /\ k \in iter[t]
    /\ iter' = [iter EXCEPT ![t] = @ \ {k}]
    /\ cache' = remove_map(cache, k)
    /\ UNCHANGED <<duration, now, readers, wholder, poisoned, pc, op, ret, res, abs, calls>>

\* clear: the map is empty, the closure returns and drops the guard
ClearReturn(t) ==
    /\ pc[t] = "hold"
    /\ op[t].name = "clear"
    /\ iter[t] = {}
    /\ ret' = [ret EXCEPT ![t] = OkUnit]
    /\ abs' = EmptyMap
    /\ wholder' = NoThread
    /\ pc' = [pc EXCEPT ![t] = "idle"]
    /\ UNCHANGED <<cache, duration, now, readers, poisoned, op, iter, res, calls>>

\* The caller of reader() or writer() lets its guard go out of scope
DropGuard(t) ==
    /\ pc[t] = "hold"
    /\ op[t].name \in {"reader", "writer"}
    /\ readers' = readers \ {t}
    /\ wholder' = IF wholder = t THEN NoThread ELSE wholder
    /\ pc' = [pc EXCEPT ![t] = "idle"]
    /\ UNCHANGED <<cache, duration, now, poisoned, op, ret, iter, res, abs, calls>>

\* Panic that sets the poison flag for a read guard too
Panic_poisons_always(t) ==
    /\ pc[t] = "hold"
    /\ op[t].name \in {"reader", "writer"}
    /\ readers' = readers \ {t}
    /\ wholder' = IF wholder = t THEN NoThread ELSE wholder
    /\ poisoned' = TRUE
    /\ ret' = [ret EXCEPT ![t] = [tag |-> "Panicked"]]
    /\ pc' = [pc EXCEPT ![t] = "idle"]
    /\ UNCHANGED <<cache, duration, now, op, iter, res, abs, calls>>

\* The caller of reader() or writer() panics while it holds the guard: the
\* unwinding drops the guard, and the drop of a write guard in a panicking
\* thread sets the poison flag
Panic(t) ==
    /\ pc[t] = "hold"
    /\ op[t].name \in {"reader", "writer"}
    /\ readers' = readers \ {t}
    /\ wholder' = IF wholder = t THEN NoThread ELSE wholder
    /\ poisoned' = (poisoned \/ wholder = t)
    /\ ret' = [ret EXCEPT ![t] = [tag |-> "Panicked"]]
    /\ pc' = [pc EXCEPT ![t] = "idle"]
    /\ UNCHANGED <<cache, duration, now, op, iter, res, abs, calls>>

Next ==
    \/ Tick
    \/ \E t \in Threads, c \in Calls : Call(t, c)
    \/ \E t \in Threads : AcquireRead(t)
    \/ \E t \in Threads : AcquireWrite(t)
    \/ \E t \in Threads : Get(t)
    \/ \E t \in Threads, k \in Keys : GetAllStep(t, k)
    \/ \E t \in Threads : GetAllReturn(t)
    \/ \E t \in Threads : Insert(t)
    \/ \E t \in Threads : Remove(t)
    \/ \E t \in Threads, k \in Keys : ClearStep(t, k)
    \/ \E t \in Threads : ClearReturn(t)
    \/ \E t \in Threads : DropGuard(t)
    \/ \E t \in Threads : Panic(t)

Spec == Init /\ [][Next]_vars

\* The callers that break the obligation of reader() and writer(): a thread
\* that holds the guard of reader() or writer() calls, within the guard's
\* scope, an operation that takes the lock again, in read mode (get, get_all,
\* reader) or in write mode (insert, remove, clear, writer).
NestedPcs == {"nested_read", "nested_write"}

ReenterCall(t, mode) ==
    /\ pc[t] = "hold"
    /\ op[t].name \in {"reader", "writer"}
    /\ mode \in NestedPcs
    /\ calls < MaxCalls
    /\ calls' = calls + 1
    /\ pc' = [pc EXCEPT ![t] = mode]
    /\ UNCHANGED <<cache, duration, now, readers, wholder, poisoned, op, ret, iter, res, abs>>

\* The nested acquisition is granted by the rule of any acquisition: the lock
\* does not know its holders. The nested guard is dropped when the nested call
\* returns into the scope of the outer guard, which is still held.
ReenterAcquire(t) ==
    /\ pc[t] \in NestedPcs
    /\ IF pc[t] = "nested_read" THEN can_read ELSE can_write
    /\ pc' = [pc EXCEPT ![t] = "hold"]
    /\ UNCHANGED <<cache, duration, now, readers, wholder, poisoned, op, ret, iter, res,
                   abs, calls>>

\* RwLock::read and RwLock::write may panic when the calling thread already
\* holds the lock; the unwinding drops the outer guard, and poisons the lock
\* when the outer guard is the write guard.
ReenterPanic(t) ==
    /\ pc[t] \in NestedPcs
    /\ readers' = readers \ {t}
    /\ wholder' = IF wholder = t THEN NoThread ELSE wholder
    /\ poisoned' = (poisoned \/ wholder = t)
    /\ ret' = [ret EXCEPT ![t] = [tag |-> "Panicked"]]
    /\ pc' = [pc EXCEPT ![t] = "idle"]
    /\ UNCHANGED <<cache, duration, now, op, iter, res, abs, calls>>

NextReentrant ==
    \/ Next
    \/ \E t \in Threads, mode \in NestedPcs : ReenterCall(t, mode)
    \/ \E t \in Threads : ReenterAcquire(t)
    \/ \E t \in Threads : ReenterPanic(t)

SpecReentrant == Init /\ [][NextReentrant]_vars


\* The callers that never stop calling: a call as in Call, without the budget
\* of calls. The clock plays no part in the lock and stands still here, a
\* holder of a raw guard releases it, and no holder panics or re-enters.
CallLive(t, c) ==
    /\ pc[t] = "idle"
    /\ pc' = [pc EXCEPT ![t] = "wait"]
    /\ op' = [op EXCEPT ![t] = c]
    /\ ret' = [ret EXCEPT ![t] = Pending]
    /\ UNCHANGED <<cache, duration, now, readers, wholder, poisoned, iter, res, abs, calls>>

\* The steps thread t takes by itself once it is inside a call
ThreadStep(t) ==
    \/ AcquireRead(t)
    \/ AcquireWrite(t)
    \/ Get(t)
    \/ \E k \in Keys : GetAllStep(t, k)
    \/ GetAllReturn(t)
    \/ Insert(t)
    \/ Remove(t)
    \/ \E k \in Keys : ClearStep(t, k)
    \/ ClearReturn(t)
    \/ DropGuard(t)

NextLive ==
    \/ \E t \in Threads, c \in Calls : CallLive(t, c)
    \/ \E t \in Threads : ThreadStep(t)

\* The scheduler runs every thread that can take a step. RwLock promises no
\* order among the threads that wait for it, so the fairness is weak: a
\* thread whose acquisition is possible only now and then may lose every time.
SpecLive == Init /\ [][NextLive]_vars /\ \A t \in Threads : WF_vars(ThreadStep(t))


\* The cache built with from(map)
SpecFrom == InitFrom /\ [][Next]_vars

\* ------------------------------------------------------------------ claims

\* The ttl in ticks, and the age in ticks of the last completed insert of k
Ttl == Ticks(duration)
Age(k) == now - abs[k].at

\* What a sequential cache holding abs returns for key k
Held(k) == IF k \in DOMAIN abs THEN OkSome(abs[k].val) ELSE OkNone

\* Thread t has returned from a call of the method `name`
Returned(t, name) == pc[t] = "idle" /\ op[t].name = name /\ ret[t] # Pending

\* No thread but t has made a call
Alone(t) == \A u \in Threads \ {t} : op[u] = NoOp

\* C1: with a ttl D > 0, a get of a key whose last insert (not removed or
\* cleared since) stored V at time t0 returns Ok(Some(V)) when the time since
\* t0 is at most D, the boundary included, and Ok(None) when it is more.
C1_GetWithinTtl ==
    [][\A t \in Threads :
        (Get(t) /\ Ttl > 0 /\ op[t].key \in DOMAIN abs) =>
            ret'[t] = IF Age(op[t].key) <= Ttl
                      THEN OkSome(abs[op[t].key].val)
                      ELSE OkNone]_vars

\* A get has returned Ok(None) for a key whose entry is in the store, older
\* than the ttl, with no remove or clear made
C1_Witness ==
    \E t \in Threads :
        /\ Alone(t)
        /\ Returned(t, "get")
        /\ ret[t] = OkNone
        /\ Ttl > 0
        /\ op[t].key \in DOMAIN abs
        /\ Age(op[t].key) > Ttl

\* C2: with a ttl of exactly zero a get of an inserted key returns its value
\* however old the entry is, and the test is switched off for a ttl of
\* exactly zero only.
C2_ZeroTtlNeverExpires ==
    /\ [](ignore_dur(duration) <=> Ttl = 0)
    /\ [][\A t \in Threads :
            (Get(t) /\ Ttl = 0 /\ op[t].key \in DOMAIN abs) =>
                ret'[t] = OkSome(abs[op[t].key].val)]_vars

\* With ttl zero a thread inserted k, later (the clock had moved) another
\* key, and then got k's value back
C2_Witness ==
    \E t \in Threads, k \in Keys :
        /\ Alone(t)
        /\ Ttl = 0
        /\ Returned(t, "get")
        /\ op[t].key = k
        /\ k \in DOMAIN abs
        /\ ret[t] = OkSome(abs[k].val)
        /\ \E j \in DOMAIN abs : abs[j].at > abs[k].at

\* C3: insert stores the value with the time of the insert, leaves one entry
\* for the key and the other entries alone, and returns the value the key
\* held before, expired or not, or None for an absent key.
C3_InsertOverwrites ==
    [][\A t \in Threads :
        Insert(t) =>
            /\ ret'[t] = Held(op[t].key)
            /\ DOMAIN cache' = DOMAIN cache \cup {op[t].key}
            /\ cache'[op[t].key] = [val |-> op[t].val, created |-> now]]_vars

\* A second insert of a key has returned the first one's value and the
\* store holds the second value
C3_Witness ==
    \E t \in Threads :
        /\ Returned(t, "insert")
        /\ ret[t].tag = "Some"
        /\ ret[t].val # op[t].val
        /\ op[t].key \in DOMAIN cache
        /\ cache[op[t].key].val = op[t].val

\* C4: on a lock that is not poisoned remove returns the value the key held,
\* expired or not, or Ok(None) for an absent key, and the key is not in the
\* store afterwards.
C4_RemoveDeletes ==
    [][\A t \in Threads :
        Remove(t) =>
            /\ ret'[t] = Held(op[t].key)
            /\ op[t].key \notin DOMAIN cache'
            /\ \A k \in DOMAIN cache \ {op[t].key} :
                    k \in DOMAIN cache' /\ cache'[k] = cache[k]]_vars

\* A remove has returned the value of a key, which is gone from the store
C4_Witness ==
    \E t \in Threads :
        /\ Returned(t, "remove")
        /\ ret[t].tag = "Some"
        /\ op[t].key \notin DOMAIN cache

\* The test of the spec on the last insert of k, in ticks
Fresh(k) == Ttl = 0 \/ Age(k) <= Ttl

\* C5: get_all takes each entry of the store exactly when the entry passes
\* the test of get at the moment the loop reads it, with the value stored:
\* the mapping returned holds no entry that was over the ttl then, every
\* entry that is still within the ttl at the return, and every entry when
\* the ttl is zero.
C5_GetAllFilters ==
    [][\A t \in Threads :
        /\ \A k \in Keys :
            GetAllStep(t, k) =>
                /\ k \in DOMAIN abs
                /\ res'[t] = IF Fresh(k)
                             THEN [j \in DOMAIN res[t] \cup {k} |->
                                    IF j = k THEN abs[k].val ELSE res[t][j]]
                             ELSE res[t]
        /\ GetAllReturn(t) =>
                /\ ret'[t] = OkMap(res[t])
                /\ \A k \in DOMAIN res[t] : k \in DOMAIN abs /\ res[t][k] = abs[k].val
                /\ \A k \in DOMAIN abs : Fresh(k) => k \in DOMAIN res[t]]_vars

\* A get_all has returned one of two entries of the store and left out the
\* other, which was over the ttl
C5_Witness ==
    \E t \in Threads, k \in Keys, j \in Keys :
        /\ Alone(t)
        /\ Returned(t, "get_all")
        /\ ret[t].tag = "Map"
        /\ DOMAIN abs = {k, j}
        /\ DOMAIN ret[t].map = {k}
        /\ j # k
        /\ Ttl > 0
        /\ Age(j) > Ttl

\* The steps get and get_all make
ReadStep(t) ==
    \/ AcquireRead(t)
    \/ Get(t)
    \/ \E k \in Keys : GetAllStep(t, k)
    \/ GetAllReturn(t)

\* C6: get and get_all leave the store as it is, also when they find an
\* entry expired; an entry of the store goes or changes only by a step of
\* insert or remove on its key or of clear.
C6_LazyExpiry ==
    [][/\ \A t \in Threads : ReadStep(t) => cache' = cache
       /\ \A k \in DOMAIN cache :
            (k \notin DOMAIN cache' \/ cache'[k] # cache[k]) =>
                \E t \in Threads :
                    \/ Insert(t) /\ op[t].key = k
                    \/ Remove(t) /\ op[t].key = k
                    \/ ClearStep(t, k)]_vars

\* A get_all has returned the empty mapping and the store still holds an
\* entry, which is over the ttl
C6_Witness ==
    \E t \in Threads :
        /\ Alone(t)
        /\ Returned(t, "get_all")
        /\ ret[t] = OkMap(EmptyMap)
        /\ Ttl > 0
        /\ \E k \in DOMAIN cache : now - cache[k].created > Ttl

\* C7: when clear returns the store is empty, and as long as no insert has
\* completed after it get returns Ok(None) for every key and get_all the
\* empty mapping.
C7_ClearEmpties ==
    [][\A t \in Threads :
        /\ ClearReturn(t) => (cache' = EmptyMap /\ ret'[t] = OkUnit)
        /\ (Get(t) /\ abs = EmptyMap) => ret'[t] = OkNone
        /\ (GetAllReturn(t) /\ abs = EmptyMap) => ret'[t] = OkMap(EmptyMap)]_vars

\* A clear is about to return: it has dropped every entry of a store that
\* held an entry for each key, one of them over the ttl
C7_Witness ==
    \E t \in Threads :
        /\ pc[t] = "hold"
        /\ op[t].name = "clear"
        /\ iter[t] = {}
        /\ cache = EmptyMap
        /\ DOMAIN abs = Keys
        /\ Ttl > 0
        /\ \E k \in Keys : Age(k) > Ttl

\* Thread t holds a guard
Holds(t) == pc[t] = "hold"

\* C8: while a thread holds the write guard no other thread holds a guard,
\* read or write, and no waiting thread can acquire one.
C8_WriterExclusive ==
    \A t \in Threads :
        (Holds(t) /\ op[t].name \in WriteOps) =>
            /\ wholder = t
            /\ readers = {}
            /\ \A u \in Threads \ {t} :
                /\ ~Holds(u)
                /\ ~ENABLED AcquireRead(u)
                /\ ~ENABLED AcquireWrite(u)

\* A thread holds the write guard in insert and the other thread waits
C8_Witness ==
    \E t \in Threads, u \in Threads :
        /\ Holds(t)
        /\ op[t].name = "insert"
        /\ pc[u] = "wait"
        /\ op[u].name = "get"

\* A thread waits in write()
WriterWaits == \E u \in Threads : pc[u] = "wait" /\ op[u].name \in WriteOps

\* C9: a thread waiting for the read guard can take it whenever no write
\* guard is held and no writer waits, whatever the number of read guards
\* held; and the store does not change while a read guard is held, so a
\* waiting insert has no effect before the readers are gone.
C9_ReadersShare ==
    /\ [](\A t \in Threads :
            (/\ pc[t] = "wait"
             /\ op[t].name \in ReadOps
             /\ wholder = NoThread
             /\ ~WriterWaits) =>
                ENABLED AcquireRead(t))
    /\ [][readers # {} => cache' = cache]_vars
    /\ [][\A t \in Threads : Insert(t) => readers = {}]_vars

\* Every thread holds a read guard inside get at the same time
C9_Witness ==
    /\ readers = Threads
    /\ \A t \in Threads : Holds(t) /\ op[t].name = "get"

\* The store a sequential cache holding abs has
AbsCache == [k \in DOMAIN abs |-> [val |-> abs[k].val, created |-> abs[k].at]]

\* C10: each call takes effect in one step while it holds the lock, and it
\* returns what the sequential cache returns there: a read finds the store
\* of the completed writes, never one a clear has emptied in part, and a
\* write returns the value of the last completed write of its key.
C10_Linearizable ==
    /\ []((wholder = NoThread \/ readers # {}) => cache = AbsCache)
    /\ [][\A t \in Threads :
            /\ Get(t) =>
                ret'[t] = IF op[t].key \in DOMAIN abs /\ Fresh(op[t].key)
                          THEN OkSome(abs[op[t].key].val) ELSE OkNone
            /\ Insert(t) => (ret'[t] = Held(op[t].key) /\ cache' = AbsCache')
            /\ Remove(t) => (ret'[t] = Held(op[t].key) /\ cache' = AbsCache')
            /\ ClearReturn(t) => cache' = AbsCache'
            /\ GetAllReturn(t) =>
                /\ \A k \in DOMAIN ret'[t].map :
                        k \in DOMAIN abs /\ ret'[t].map[k] = abs[k].val
                /\ \A k \in DOMAIN abs : Fresh(k) => k \in DOMAIN ret'[t].map]_vars

\* A get has returned the value that the insert of another thread, the only
\* other call made, stored
C10_Witness ==
    \E t \in Threads, u \in Threads :
        /\ t # u
        /\ calls = 2
        /\ Returned(u, "insert")
        /\ Returned(t, "get")
        /\ op[t].key = op[u].key
        /\ ret[t] = OkSome(op[u].val)

\* Thread t takes the step in which read() or write() returns
Acquires(t) == AcquireRead(t) \/ AcquireWrite(t)

\* Thread t takes the step in which a closure returns its value
Completes(t) ==
    Get(t) \/ GetAllReturn(t) \/ Insert(t) \/ Remove(t) \/ ClearReturn(t)

\* C11: the poison flag, once set, stays set; from then on no thread is
\* inside a closure or holds a guard, and every read() and write() that
\* returns makes its call return Err.
C11_PoisonTerminal ==
    /\ [][poisoned => poisoned']_vars
    /\ [](poisoned => \A t \in Threads : pc[t] # "hold")
    /\ [][\A t \in Threads :
            (poisoned /\ Acquires(t)) => (ret'[t] = Err /\ pc'[t] = "idle")]_vars

\* On the poisoned lock a get has returned Err
C11_Witness ==
    \E t \in Threads :
        /\ poisoned
        /\ Returned(t, "get")
        /\ ret[t] = Err

\* C12: a call returns Err exactly when the lock is poisoned as its read()
\* or write() returns; a closure that runs returns Ok, also for an absent
\* key, an expired entry and an empty store.
C12_PoisonOnlyError ==
    [][\A t \in Threads :
        /\ Acquires(t) => (ret'[t] = Err <=> poisoned)
        /\ Completes(t) =>
            (~poisoned /\ ret'[t].tag \in {"None", "Some", "Map", "Unit"})]_vars

\* On the empty store of a lock that is not poisoned a get has returned
\* Ok(None)
C12_Witness ==
    \E t \in Threads :
        /\ ~poisoned
        /\ cache = EmptyMap
        /\ Returned(t, "get")
        /\ ret[t] = OkNone

\* The entry of k was given to from(map) and no insert, remove or clear has
\* touched it
Seeded(k) == k \in DOMAIN abs /\ "seeded" \in DOMAIN abs[k]

\* C13: a cache built with from(map) has the zero ttl: get returns the value
\* of every entry it holds, seeded or inserted later, whatever its age, and
\* get_all returns them all.
C13_FromNeverExpires ==
    /\ [](duration = [secs |-> 0, nanos |-> 0])
    /\ [][\A t \in Threads :
            /\ (Get(t) /\ op[t].key \in DOMAIN abs) =>
                    ret'[t] = OkSome(abs[op[t].key].val)
            /\ GetAllReturn(t) =>
                    ret'[t] = OkMap([k \in DOMAIN abs |-> abs[k].val])]_vars

\* A thread inserted a key after the clock had moved and then got the value
\* of a seeded key, older than the inserted one
C13_Witness ==
    \E t \in Threads, k \in Keys :
        /\ Alone(t)
        /\ Seeded(k)
        /\ Returned(t, "get")
        /\ op[t].key = k
        /\ ret[t] = OkSome(abs[k].val)
        /\ \E j \in DOMAIN abs : ~Seeded(j) /\ abs[j].at > abs[k].at

\* Thread t has a guard out, read or write
HasGuard(t) == t \in readers \/ wholder = t

\* C14: a thread has a guard out only between the return of its read() or
\* write() and the end of the closure or of the caller's scope: once a call
\* has returned, Ok or Err, or the caller of reader() or writer() has left
\* the guard's scope, by a panic too, the thread holds no guard.
C14_ScopedRelease ==
    \A t \in Threads :
        /\ HasGuard(t) <=> pc[t] = "hold"
        /\ ~(t \in readers /\ wholder = t)

\* The holder of a read guard from reader() has panicked, and the other
\* thread now holds the write guard
C14_Witness ==
    \E t \in Threads, u \in Threads :
        /\ op[t].name = "reader"
        /\ ret[t].tag = "Panicked"
        /\ pc[t] = "idle"
        /\ wholder = u
        /\ u # t

\* C15 as claimed: the panic of a thread that holds a guard, read or write,
\* leaves the lock poisoned.
C15_AnyHolderPanicPoisons ==
    [][\A t \in Threads : Panic(t) => poisoned']_vars

\* C15, amended: the panic of a thread that holds the write guard leaves the
\* lock poisoned; the panic of a thread that holds a read guard drops the
\* guard and leaves the poison flag as it was.
C15_WriterPanicPoisons ==
    [][\A t \in Threads :
        Panic(t) =>
            /\ op[t].name = "writer" => poisoned'
            /\ op[t].name = "reader" => (poisoned' = poisoned /\ t \notin readers')]_vars

\* The holder of a read guard has panicked and the lock is not poisoned
C15_Witness ==
    \E t \in Threads :
        /\ op[t].name = "reader"
        /\ ret[t].tag = "Panicked"
        /\ ~poisoned
        /\ readers = {}

\* C16 as claimed: a thread that holds the guard of reader() or writer() and
\* calls an operation that takes the lock again never returns from that call,
\* whatever the held and the requested mode.
C16_ReentryNeverReturns ==
    [][\A t \in Threads : pc[t] \in NestedPcs => pc'[t] # "hold"]_vars

\* C16, amended: the nested call never returns when the thread holds the write
\* guard, or holds a read guard and requests the write mode: the thread stays
\* blocked or the nested acquisition panics. A read requested by the holder of
\* a read guard is left out: it can be granted.
C16_ReentryBlocksUnlessReadInRead ==
    [][\A t \in Threads :
        (pc[t] \in NestedPcs /\ (op[t].name = "writer" \/ pc[t] = "nested_write")) =>
            \/ pc'[t] = pc[t] /\ (t \in readers' \/ wholder' = t) /\ ret'[t] = ret[t]
            \/ /\ pc'[t] = "idle"
               /\ ret'[t].tag = "Panicked"
               /\ t \notin readers' /\ wholder' # t]_vars

\* The holder of a read guard is blocked in a nested write acquisition, and
\* the other thread waits for the lock behind it
C16_Witness ==
    \E t \in Threads : \E u \in Threads \ {t} :
        /\ pc[t] = "nested_write"
        /\ op[t].name = "reader"
        /\ t \in readers
        /\ pc[u] = "wait"
        /\ op[u].name \in WriteOps

\* C17 as claimed: in every reachable state the timestamp of each entry of
\* the store is the time of the most recent insert of its key.
C17_TimestampIsLastInsert ==
    \A k \in DOMAIN cache :
        /\ k \in DOMAIN abs
        /\ ~Seeded(k)
        /\ cache[k].created = abs[k].at

\* C17, amended: the timestamp of an entry is the time of the most recent
\* insert of its key, or, for an entry of the map given to from() whose key
\* was not inserted since, the timestamp that map supplied; and no step but
\* an insert of the key changes the timestamp of an entry that stays in the
\* store.
C17_TimestampInvariant ==
    /\ [](\A k \in DOMAIN cache :
            /\ k \in DOMAIN abs
            /\ cache[k].created = abs[k].at)
    /\ [][\A k \in DOMAIN cache \cap DOMAIN cache' :
            \/ cache'[k].created = cache[k].created
            \/ /\ \E t \in Threads : Insert(t) /\ op[t].key = k
               /\ cache'[k].created = now
               /\ ~Seeded(k)']_vars

\* A seeded entry keeps the supplied timestamp after an insert of the other
\* key at a later time and a completed get_all
C17_Witness ==
    \E k \in DOMAIN cache : \E j \in DOMAIN cache \ {k} : \E t \in Threads :
        /\ Seeded(k)
        /\ ~Seeded(j)
        /\ cache[j].created > cache[k].created
        /\ Returned(t, "get_all")
        /\ ret[t] = OkMap([i \in {k, j} |-> cache[i].val])

\* C18 as claimed: under fair scheduling, with every raw guard released and
\* no re-entry, every call that waits for the lock eventually acquires it and
\* returns; a waiting writer is not starved by a stream of readers.
C18_EveryCallReturns ==
    \A t \in Threads : (pc[t] = "wait") ~> (pc[t] = "idle")

\* C18, amended: under fair scheduling, with every raw guard released and no
\* re-entry, every call that has acquired the lock eventually returns and
\* releases it, and a call waits only while other threads use the lock: a
\* waiting call eventually acquires the lock or another thread is inside it.
C18_HolderReturns ==
    \A t \in Threads :
        (pc[t] # "idle") ~>
            \/ pc[t] = "idle" /\ ~HasGuard(t)
            \/ pc[t] = "wait" /\ \E u \in Threads \ {t} : HasGuard(u)

\* A writer waits for the lock while the other thread, in a get_all, holds a
\* read guard it acquired after an earlier read call of its own
C18_Witness ==
    \E t \in Threads : \E u \in Threads \ {t} :
        /\ pc[t] = "wait"
        /\ op[t].name = "insert"
        /\ pc[u] = "hold"
        /\ op[u].name = "get_all"
        /\ u \in readers
        /\ res[u] # EmptyMap

\* The entry of k has outlived a positive ttl
Expired(k) == k \in DOMAIN abs /\ Ttl > 0 /\ Age(k) > Ttl

\* C19: with a positive ttl, an expired entry stays expired at every step that
\* is not an insert of its key; a get of an expired key returns Ok(None) and
\* get_all leaves the key out; an insert of the key stamps the entry with the
\* current time, so that it is not expired and is readable at once.
C19_ExpiryMonotone ==
    [][\A k \in Keys : \A t \in Threads :
        /\ (Expired(k) /\ k \in DOMAIN abs' /\ ~\E u \in Threads : Insert(u) /\ op[u].key = k)
             => Expired(k)'
        /\ (Expired(k) /\ Get(t) /\ op[t].key = k) => ret'[t] = OkNone
        /\ (Expired(k) /\ GetAllStep(t, k)) => k \notin DOMAIN res'[t]
        /\ (Insert(t) /\ op[t].key = k) =>
             /\ ~Expired(k)'
             /\ cache'[k].created = now'
             /\ get_result(cache', duration, k, now') = OkSome(op[t].val)
             /\ \A later \in now..MaxTime :
                  later - now <= Ttl =>
                      get_result(cache', duration, k, later) = OkSome(op[t].val)]_vars

\* Both threads have read the expired key k, still in the store, as absent
C19_Witness ==
    \E k \in DOMAIN cache : \E t \in Threads : \E u \in Threads \ {t} :
        /\ Expired(k)
        /\ Returned(t, "get") /\ op[t].key = k /\ ret[t] = OkNone
        /\ Returned(u, "get") /\ op[u].key = k /\ ret[u] = OkNone

\* C20: insert(K, _) and remove(K) change only the entry of K: every other
\* key K' is in the store after the step exactly if it was before, with the
\* same value and timestamp, and get(K') gives the result it gave before.
C20_KeyIndependence ==
    [][\A t \in Threads :
        (Insert(t) \/ Remove(t)) =>
            \A other \in Keys \ {op[t].key} :
                /\ other \in DOMAIN cache' <=> other \in DOMAIN cache
                /\ other \in DOMAIN cache => cache'[other] = cache[other]
                /\ get_result(cache', duration', other, now')
                     = get_result(cache, duration, other, now)
                /\ Held(other)' = Held(other)]_vars

\* A remove has deleted the entry of its key and the entry of the other key
\* is in the store
C20_Witness ==
    \E t \in Threads : \E other \in DOMAIN cache :
        /\ Returned(t, "remove")
        /\ ret[t].tag = "Some"
        /\ op[t].key # other
        /\ op[t].key \notin DOMAIN cache
        /\ Held(other) = OkSome(cache[other].val)

=============================================================================
